---- MODULE Spec2Model ----
(***************************************************************************)
(* Zone sharding setup of a MongoDB Atlas cluster (setup_atlas_zones.py).  *)
(* The cluster is the state of record: its shard inventory, the shard-zone *)
(* associations (shard tags), the sharding flags of databases and          *)
(* collections, the database primaries and the zone key ranges.  The       *)
(* program is AtlasZoneShardingManager: every administrative command it    *)
(* issues is one step, and the answer of the cluster to a command is       *)
(* chosen among the answers the cluster can give in its current state.     *)
(***************************************************************************)
EXTENDS Integers, Sequences, FiniteSets, TLC

\* ---------------------------------------------------------------- bounds
\* longest shard inventory given to the planner on its own
MaxPlanShards == 3
\* longest shard inventory of a cluster the program runs against
MaxShards == 2
\* create_zones / cleanup_zones runs in one behaviour of SpecZones
MaxRuns == 3
\* shard_collection calls in one behaviour of SpecRanges
MaxCalls == 2
\* commands that fail for reasons outside the model in one behaviour
MaxFaults == 1

\* documents generated per common collection in a run (50, 100 and 20 in
\* the code)
BatchSize == 2

\* config.DEMO_DATA_SIZE, 1000 in the code
DemoDataSize == 4

\* ---------------------------------------------------------- configuration
\* config.ZONES, in declaration (dict insertion) order
ZONES ==
  << [name |-> "region1", shards |-> <<"shard00">>,
      countries |-> <<"CN", "TR">>, database_prefix |-> "app_region1"],
     [name |-> "region2", shards |-> <<"shard01">>,
      countries |-> <<"AE", "US", "EU", "GB">>, database_prefix |-> "app_region2"] >>

COMMON_COLLECTIONS == <<"users", "products", "categories">>

TENANT_COLLECTIONS == <<"orders", "transactions", "logs">>

\* bson.MaxKey, the upper sentinel of a zone key range
MaxKey == "MaxKey"

VARIABLE
  zones         \* self.zones: the zones of the configuration in use, in order

\* len(self.zones)
NZones == Len(zones)

ZoneNames == {ZONES[i].name : i \in 1..NZones}

\* self.zones.get(zone_name): the index of the zone in ZONES, 0 when absent
ZoneIndex(zone_name) ==
  IF zone_name \in ZoneNames
  THEN CHOOSE i \in 1..NZones : ZONES[i].name = zone_name
  ELSE 0

\* identifiers a cluster may give its shards; "config" is the config shard
ShardIds == {"shard00", "shard01", "shard02", "config"}

\* a zone of the cluster the configuration does not know
ForeignZone == "legacy"

Range(s) == {s[i] : i \in 1..Len(s)}

\* the inventories of at most n shards listShards can return: distinct
\* identifiers, in any order
ShardListsUpTo(n) ==
  {s \in UNION {[1..k -> ShardIds] : k \in 0..n} :
     \A i, j \in 1..Len(s) : i # j => s[i] # s[j]}

ShardLists == ShardListsUpTo(MaxShards)

\* ------------------------------------------------------------------ state
VARIABLES
  server,       \* cluster: how its build answers a repeated shardCollection
  shards,       \* cluster: the inventory, in the order listShards returns it
  tags,         \* cluster: shard-zone associations, a set of <<shard, zone>>
  enabled,      \* cluster: databases with sharding enabled
  primary,      \* cluster: database -> primary shard ("none" when unplaced)
  sharded,      \* cluster: sharded namespaces <<database, collection>>
  ranges,       \* cluster: zone key ranges [ns, min, max, zone]
  op,           \* the method the caller invoked ("idle" between runs)
  pc,           \* the command the program issues next
  idx,          \* index of the current zone (enumerate(self.zones.items()))
  cidx,         \* index of the current tenant collection / configured shard
  kidx,         \* index of the current country in shard_collection
  call,         \* arguments of the running shard_collection
  actual_shard, \* create_zones: shard used for each zone so far, in order
  zone_shards,  \* setup_atlas_zone_sharding: zone_shards, in zone order
  status,       \* create_zones: status printed for each zone so far
  ret,          \* return value of the last finished method
  replies,      \* the answers other than "ok" of the current run
  issued,       \* the commands of the current run, in the order issued
  data,         \* databases: namespace -> the documents of the collection
  written,      \* namespace -> number of documents inserted for the zone's own
                \* countries so far
  hist          \* finished runs, oldest first

vars == << data, written, zones, server, shards, tags, enabled, primary, sharded, ranges, op, pc, idx, cidx,
           kidx, call, actual_shard, zone_shards, status, ret, replies, issued, hist >>

cluster == << server, shards, tags, enabled, primary, sharded, ranges >>

Databases == {ZONES[i].database_prefix : i \in 1..NZones}

\* the collections of the zone databases
DataNamespaces ==
  {<<ZONES[i].database_prefix, c>> :
     i \in 1..Len(ZONES), c \in Range(COMMON_COLLECTIONS) \cup Range(TENANT_COLLECTIONS)}

\* no collection holds a document
EmptyDatabases ==
  /\ data = [ns \in DataNamespaces |-> {}]
  /\ written = [ns \in DataNamespaces |-> 0]

NoCall == [db |-> "none", coll |-> "none", zone |-> "None"]

\* ------------------------------------------------------------ the planner
\* IndexError raised by shard_names[-1] on an empty list
IndexError == "IndexError"

\* the inventory with the config shard left in
KeepConfigShard(actual_shards) == actual_shards

\* [s for s in actual_shards if s != "config"]
ShardNames(actual_shards) ==
  SelectSeq(actual_shards, LAMBDA s : s # "config")

\* shard_names[idx] without the overflow policy
ShardAtUnguarded(shard_names, i) ==
  IF i < Len(shard_names) THEN shard_names[i + 1] ELSE IndexError

\* shard_names[idx] if idx < len(shard_names) else shard_names[-1]
ShardAt(shard_names, i) ==
  IF i < Len(shard_names) THEN shard_names[i + 1]
  ELSE IF Len(shard_names) > 0 THEN shard_names[Len(shard_names)]
  ELSE IndexError

\* the first shard for every zone (the default of line 178)
FirstShard(actual_shards, i) == ShardAt(ShardNames(actual_shards), 0)

\* line 57 over the inventory with the config shard left in
ActualShardUnfiltered(actual_shards, i) == ShardAt(actual_shards, i)

\* create_zones: the shard of the zone at index i (0-based)
ActualShard(actual_shards, i) == ShardAt(ShardNames(actual_shards), i)

\* line 172 over the inventory with the config shard left in
ZoneShardUnfiltered(actual_shards, i) == ShardAt(actual_shards, i)

\* setup_atlas_zone_sharding: zone_shards[zone_name] of the zone at index i
ZoneShard(actual_shards, i) == ShardAt(ShardNames(actual_shards), i)

\* ------------------------------------------------- the planner on its own
\* the cluster and the program before the first run
Idle ==
  /\ op = "idle" /\ pc = "idle" /\ idx = 0 /\ cidx = 0 /\ kidx = 0
  /\ call = NoCall /\ actual_shard = << >> /\ zone_shards = << >>
  /\ status = << >> /\ ret = "none" /\ replies = {} /\ issued = << >>
  /\ hist = << >>

EmptyCluster ==
  /\ tags = {} /\ enabled = {} /\ sharded = {} /\ ranges = {}
  /\ primary = [d \in Databases |-> "none"]

InitPlan ==
  /\ zones = ZONES /\ EmptyDatabases
  /\ shards \in ShardListsUpTo(MaxPlanShards) /\ server = "idempotent"
  /\ EmptyCluster /\ Idle

\* create_zones, lines 51-57: the shard picked for the next zone of the loop
PlanCreateZones ==
  /\ Len(actual_shard) < NZones
  /\ IndexError \notin Range(actual_shard)
  /\ actual_shard' = Append(actual_shard, ActualShard(shards, Len(actual_shard)))
  /\ UNCHANGED << data, written, zones, cluster, op, pc, idx, cidx, kidx, call, zone_shards, status,
                  ret, replies, issued, hist >>

\* setup_atlas_zone_sharding, lines 169-174: zone_shards of the next zone
PlanSetup ==
  /\ Len(zone_shards) < NZones
  /\ IndexError \notin Range(zone_shards)
  /\ zone_shards' = Append(zone_shards, ZoneShard(shards, Len(zone_shards)))
  /\ UNCHANGED << data, written, zones, cluster, op, pc, idx, cidx, kidx, call, actual_shard, status,
                  ret, replies, issued, hist >>

NextPlan == PlanCreateZones \/ PlanSetup

SpecPlan == InitPlan /\ [][NextPlan]_vars

\* ------------------------------------------------------- claims C1 and C2
\* positions of the inventory that hold a data shard
DataPositions(s) == {j \in 1..Len(s) : s[j] # "config"}

\* the n-th data shard of the inventory (n from 1), in inventory order
NthDataShard(s, n) ==
  s[CHOOSE j \in DataPositions(s) :
      Cardinality({k \in DataPositions(s) : k <= j}) = n]

NData(s) == Cardinality(DataPositions(s))

Distinct(m) == \A i, j \in 1..Len(m) : i # j => m[i] # m[j]

\* C1 as stated: with at least as many shards as zones, both mappings give
\* the zone at index i the shard at index i of the inventory as returned by
\* the cluster, and the zones get pairwise distinct shards.
C1_AsStated ==
  Len(shards) >= NZones =>
    /\ \A i \in 1..Len(actual_shard) : actual_shard[i] = shards[i]
    /\ \A i \in 1..Len(zone_shards) : zone_shards[i] = shards[i]
    /\ Distinct(actual_shard) /\ Distinct(zone_shards)

\* C1 amended: with at least as many data shards (inventory entries other
\* than "config") as zones, both mappings give the zone at index i the i-th
\* data shard in inventory order, and the zones get pairwise distinct shards.
C1_Positional ==
  NData(shards) >= NZones =>
    /\ \A i \in 1..Len(actual_shard) : actual_shard[i] = NthDataShard(shards, i)
    /\ \A i \in 1..Len(zone_shards) : zone_shards[i] = NthDataShard(shards, i)
    /\ Distinct(actual_shard) /\ Distinct(zone_shards)

C1_Witness ==
  /\ NData(shards) >= NZones
  /\ shards[1] = "config"
  /\ Len(actual_shard) = NZones /\ Len(zone_shards) = NZones

\* the shard the overflow policy names for position i (from 1) of list s
Overflow(s, i) == IF i <= Len(s) THEN s[i] ELSE s[Len(s)]

\* C2 as stated: with fewer shards than zones, planning is no error, zones
\* beyond the shard count get the last shard of the inventory and the others
\* their positional shard.
C2_AsStated ==
  Len(shards) < NZones =>
    \A m \in {actual_shard, zone_shards} : \A i \in 1..Len(m) :
      /\ m[i] # IndexError
      /\ Len(shards) > 0 => m[i] = Overflow(shards, i)

\* C2 amended: with at least one data shard but fewer data shards than
\* zones, planning is no error, zones beyond the data shard count get the
\* last data shard and the others their positional data shard.
C2_Overflow ==
  (NData(shards) >= 1 /\ NData(shards) < NZones) =>
    \A m \in {actual_shard, zone_shards} : \A i \in 1..Len(m) :
      /\ m[i] # IndexError
      /\ m[i] = NthDataShard(shards, IF i <= NData(shards) THEN i ELSE NData(shards))

C2_Witness ==
  /\ NData(shards) = 1 /\ Len(shards) = 2 /\ shards[1] = "config"
  /\ Len(actual_shard) = NZones /\ Len(zone_shards) = NZones
  /\ actual_shard[NZones] = actual_shard[1]

\* ------------------------------------------------ the cluster's answers
\* An answer is "ok" (applied), a failure whose message says the request is
\* already satisfied ("already", "notinzone", "notfound"), or any other
\* failure: "refused" when the cluster must refuse the command in its
\* state, "error" when it fails for a reason outside the model.
Failures == {"refused", "error"}

\* the failures for outside reasons so far, in this run and the earlier ones
InjectedSoFar ==
  Cardinality({c \in replies : c[3] = "error"})
  + Cardinality(UNION {{<<n, c>> : c \in {f \in hist[n].failed : f[3] = "error"}} :
                       n \in 1..Len(hist)})

Injected == IF InjectedSoFar < MaxFaults THEN {"error"} ELSE {}

ZoneShardsOf(zone) == {t[1] : t \in {u \in tags : u[2] = zone}}

ZoneHasRanges(zone) == \E r \in ranges : r.zone = zone

\* addShardToZone: unknown shards are refused; a repeated association is
\* applied again or reported as already existing
AddShardToZoneAnswers(shard, zone) ==
  IF shard \notin Range(shards) THEN {"refused"}
  ELSE {"ok"} \cup (IF <<shard, zone>> \in tags THEN {"already"} ELSE {})
         \cup Injected

\* removeShardFromZone: unknown shards are refused, and so is the removal of
\* the last shard of a zone that still has key ranges
RemoveShardFromZoneAnswers(shard, zone) ==
  IF shard \notin Range(shards) THEN {"refused"}
  ELSE IF ZoneShardsOf(zone) = {shard} /\ ZoneHasRanges(zone) THEN {"refused"}
  ELSE {"ok"} \cup (IF <<shard, zone>> \notin tags THEN {"notinzone"} ELSE {})
         \cup Injected

\* removeZone: a zone is nothing but the tags and ranges that name it, so
\* the command cannot delete a zone in use; an unused zone is not found
RemoveZoneAnswers(zone) ==
  IF ZoneShardsOf(zone) # {} \/ ZoneHasRanges(zone) THEN {"refused"}
  ELSE {"notfound"} \cup Injected

\* the commands issued so far and command cmd on target with argument arg
Issue(cmd, target, arg) == Append(issued, <<cmd, target, arg>>)

\* what the answer a to command cmd on target leaves in the run's record
Reply(a, cmd, target) == IF a # "ok" THEN {<<cmd, target, a>>} ELSE {}

\* the real failures among the recorded answers f
RealFailures(f) == {c \in f : c[3] \in Failures}

\* ------------------------------------------------------- runs of a method
\* the last finished run and the one before it
Last == hist[Len(hist)]

Prev == hist[Len(hist) - 1]

\* what is kept of a finished run: the method, its arguments and result,
\* the failed commands and the cluster as the run left it
RunRecord(r) ==
  [op |-> op, ret |-> r, failed |-> RealFailures(replies), tags |-> tags,
   ranges |-> ranges, enabled |-> enabled, primary |-> primary,
   sharded |-> sharded, plan |-> actual_shard, call |-> call]

\* the cluster before the first run
InitRecord ==
  [op |-> "init", ret |-> "none", failed |-> {}, tags |-> tags,
   ranges |-> ranges, enabled |-> enabled, primary |-> primary,
   sharded |-> sharded, plan |-> << >>, call |-> NoCall]

\* the caller gets the value r back
Finish(r) ==
  /\ hist' = Append(hist, RunRecord(r))
  /\ op' = "idle" /\ pc' = "idle" /\ ret' = r

\* the caller invokes method m, whose first command is first
Begin(m, first) ==
  /\ op = "idle"
  /\ op' = m /\ pc' = first /\ ret' = "none"
  /\ idx' = 0 /\ cidx' = 0 /\ kidx' = 0
  /\ actual_shard' = << >> /\ zone_shards' = << >> /\ status' = << >>
  /\ replies' = {} /\ issued' = << >>
  /\ UNCHANGED hist

\* ------------------------------------------------------------ create_zones
\* lines 66-72 with "already" reported as an error
ClassifyAlreadyAsError(a) == IF a = "ok" THEN "SUCCESS" ELSE "ERROR"

\* lines 66-72: the status printed for the answer to addShardToZone
ClassifyAdd(a) ==
  IF a = "ok" THEN "SUCCESS"
  ELSE IF a = "already" THEN "WARNING"
  ELSE "ERROR"

\* addShardToZone taking the shard out of every other zone
AddShardToOneZone(shard, zone) ==
  {t \in tags : t[1] # shard} \cup {<<shard, zone>>}

\* the associations after addShardToZone was applied
AddShardToZoneApplied(shard, zone) == tags \cup {<<shard, zone>>}

\* lines 67-73 with a failure that is not "already" leaving the loop
AfterAddAbort(a) == IF a \in Failures THEN NZones ELSE idx + 1

\* lines 53 and 67-76: whatever the answer a, the loop goes on with the
\* next zone
AfterAdd(a) == idx + 1

\* lines 53-76: one pass of the loop, the command and its classification
AddShardToZone ==
  /\ pc = "addShardToZone"
  /\ idx < NZones
  /\ ActualShard(shards, idx) # IndexError
  /\ LET shard == ActualShard(shards, idx)
         zone == ZONES[idx + 1].name
     IN \E a \in AddShardToZoneAnswers(shard, zone) :
          /\ tags' = IF a = "ok" THEN AddShardToZoneApplied(shard, zone) ELSE tags
          /\ status' = Append(status, ClassifyAdd(a))
          /\ actual_shard' = Append(actual_shard, shard)
          /\ replies' = replies \cup Reply(a, "addShardToZone", zone)
          /\ issued' = Issue("addShardToZone", zone, shard)
          /\ idx' = AfterAdd(a)
  /\ UNCHANGED << data, written, zones, server, shards, enabled, primary, sharded, ranges, op, pc, cidx,
                  kidx, call, zone_shards, ret, hist >>

\* lines 57 and 80-82: shard_names[-1] raises, create_zones returns False;
\* its caller setup_atlas_zone_sharding then returns False too (164-165)
CreateZonesRaise ==
  /\ pc = "addShardToZone"
  /\ idx < NZones
  /\ ActualShard(shards, idx) = IndexError
  /\ Finish("False")
  /\ UNCHANGED << data, written, zones, cluster, idx, cidx, kidx, call, actual_shard, zone_shards,
                  status, replies, issued >>

\* line 78, called by the user: create_zones returns True
CreateZonesReturn ==
  /\ op = "create_zones"
  /\ pc = "addShardToZone"
  /\ idx = NZones
  /\ Finish("True")
  /\ UNCHANGED << data, written, zones, cluster, idx, cidx, kidx, call, actual_shard, zone_shards,
                  status, replies, issued >>

\* ----------------------------------------------------------- cleanup_zones
NextShardOfZone == cidx + 1 < Len(ZONES[idx + 1].shards)

\* lines 246-260: one removeShardFromZone of the nested loops
RemoveShardFromZone ==
  /\ pc = "removeShardFromZone"
  /\ idx < NZones
  /\ LET shard == ZONES[idx + 1].shards[cidx + 1]
         zone == ZONES[idx + 1].name
     IN \E a \in RemoveShardFromZoneAnswers(shard, zone) :
          /\ tags' = IF a = "ok" THEN tags \ {<<shard, zone>>} ELSE tags
          /\ replies' = replies \cup Reply(a, "removeShardFromZone", zone)
          /\ issued' = Issue("removeShardFromZone", zone, shard)
  /\ cidx' = IF NextShardOfZone THEN cidx + 1 ELSE 0
  /\ idx' = IF NextShardOfZone THEN idx
            ELSE IF idx + 1 < NZones THEN idx + 1 ELSE 0
  /\ pc' = IF ~NextShardOfZone /\ idx + 1 = NZones
           THEN "removeZone" ELSE "removeShardFromZone"
  /\ UNCHANGED << data, written, zones, server, shards, enabled, primary, sharded, ranges, op, kidx, call,
                  actual_shard, zone_shards, status, ret, hist >>

\* lines 267-272 with a failure that is not "not found" leaving the loop
AfterRemoveZoneAbort(a) == IF a \in Failures THEN NZones ELSE idx + 1

\* lines 263 and 267-272: whatever the answer a, the loop goes on with the
\* next zone
AfterRemoveZone(a) == idx + 1

\* lines 263-272: one removeZone of the second loop
RemoveZone ==
  /\ pc = "removeZone"
  /\ idx < NZones
  /\ \E a \in RemoveZoneAnswers(ZONES[idx + 1].name) :
       /\ replies' = replies \cup Reply(a, "removeZone", ZONES[idx + 1].name)
       /\ idx' = AfterRemoveZone(a)
  /\ issued' = Issue("removeZone", ZONES[idx + 1].name, "none")
  /\ UNCHANGED << data, written, zones, cluster, op, pc, cidx, kidx, call, actual_shard,
                  zone_shards, status, ret, hist >>

\* line 274: cleanup_zones returns True
CleanupReturn ==
  /\ pc = "removeZone"
  /\ idx = NZones
  /\ Finish("True")
  /\ UNCHANGED << data, written, zones, cluster, idx, cidx, kidx, call, actual_shard, zone_shards,
                  status, replies, issued >>

\* ------------------------------------- reconcile and teardown on a cluster
\* the orders in which listShards may have returned the inventory earlier
Orders(s) ==
  {p \in [1..Len(s) -> Range(s)] : \A i, j \in 1..Len(s) : i # j => p[i] # p[j]}

\* the associations a complete create_zones makes for the inventory order p
TagsOfPlan(p) ==
  IF ShardNames(p) = << >> THEN {}
  ELSE {<<ActualShard(p, i - 1), ZONES[i].name>> : i \in 1..NZones}

\* the associations before the first run: none or those an earlier
\* create_zones made for some order of the inventory, and possibly one of a
\* zone the configuration does not know
InitialTags ==
  {E \cup F : E \in {{}} \cup {TagsOfPlan(p) : p \in Orders(shards)},
              F \in {{}} \cup {{<<shards[i], ForeignZone>>} : i \in 1..Len(shards)}}

InitZones ==
  /\ zones = ZONES /\ EmptyDatabases
  /\ shards \in ShardLists /\ server = "idempotent"
  /\ tags \in InitialTags
  /\ enabled = {} /\ sharded = {} /\ ranges = {}
  /\ primary = [d \in Databases |-> "none"]
  /\ op = "idle" /\ pc = "idle" /\ idx = 0 /\ cidx = 0 /\ kidx = 0
  /\ call = NoCall /\ actual_shard = << >> /\ zone_shards = << >>
  /\ status = << >> /\ ret = "none" /\ replies = {} /\ issued = << >>
  /\ hist = << InitRecord >>

\* the user calls create_zones with the inventory of the cluster
CallCreateZones ==
  /\ Len(hist) <= MaxRuns
  /\ Begin("create_zones", "addShardToZone")
  /\ UNCHANGED << data, written, zones, cluster, call >>

\* the user calls cleanup_zones
CallCleanupZones ==
  /\ Len(hist) <= MaxRuns
  /\ Begin("cleanup_zones", "removeShardFromZone")
  /\ UNCHANGED << data, written, zones, cluster, call >>

NextZones ==
  \/ CallCreateZones \/ AddShardToZone \/ CreateZonesRaise \/ CreateZonesReturn
  \/ CallCleanupZones \/ RemoveShardFromZone \/ RemoveZone \/ CleanupReturn

SpecZones == InitZones /\ [][NextZones]_vars

\* ------------------------------------------- databases and collections
\* listShards: the inventory, or a failure
ListShardsAnswers == {"ok"} \cup Injected

\* the builds of the cluster: one applies a repeated request on a database
\* or a collection again, the other reports it as already done
Builds == {"idempotent", "strict"}

\* enableSharding, as the build of the cluster answers a repeated request
EnableShardingAnswers(db) ==
  {IF db \in enabled /\ server = "strict" THEN "already" ELSE "ok"} \cup Injected

\* movePrimary: unknown shards are refused; a move to the current primary
\* is answered as the build of the cluster answers a repeated request
MovePrimaryAnswers(db, shard) ==
  IF shard \notin Range(shards) THEN {"refused"}
  ELSE {IF primary[db] = shard /\ server = "strict" THEN "already" ELSE "ok"}
         \cup Injected

\* shardCollection, as the build of the cluster answers a repeated request
ShardCollectionAnswers(ns) ==
  {IF ns \in sharded /\ server = "strict" THEN "already" ELSE "ok"} \cup Injected

\* lines 117-122: the range one updateZoneKeyRange installs
RangeDoc(db, coll, country, zone) ==
  [ns |-> <<db, coll>>, min |-> <<country, "">>, max |-> <<country, MaxKey>>,
   zone |-> zone]

\* Two ranges of a namespace overlap when an interval meets the other; all
\* ranges here lie within one country value, so they meet exactly when
\* they are non-empty and of the same country.
Overlap(r, d) ==
  /\ r.ns = d.ns /\ r.min[1] = d.min[1]
  /\ r.min # r.max /\ d.min # d.max

\* updateZoneKeyRange: refused for an empty range, for a zone no shard
\* belongs to and for a range that overlaps another one
UpdateZoneKeyRangeAnswers(d) ==
  IF \/ d.min = d.max
     \/ ZoneShardsOf(d.zone) = {}
     \/ \E r \in ranges : r # d /\ Overlap(r, d)
  THEN {"refused"}
  ELSE {"ok"} \cup Injected

\* lines 178-182 with the result of enable_sharding_for_database ignored
EnableResultIgnored(a) == "True"

\* lines 91-95 with "already enabled" taken as a failure
EnableResultStrict(a) == IF a = "ok" THEN "True" ELSE "False"

\* lines 88-95: the result of enable_sharding_for_database
EnableResult(a) == IF a \in {"ok", "already"} THEN "True" ELSE "False"

\* lines 143-147: the result of move_database_primary
MoveResult(a) == IF a = "ok" THEN "True" ELSE "False"

\* the countries of every zone of the configuration
CountriesOfAllZones(zone_name) ==
  IF ZoneIndex(zone_name) = 0 THEN << >> ELSE ZONES[1].countries \o ZONES[2].countries

\* lines 110-112: the countries of the zone argument, none for no zone
Countries(zone_name) ==
  IF ZoneIndex(zone_name) = 0 THEN << >> ELSE ZONES[ZoneIndex(zone_name)].countries

\* the arguments of the shard_collection call for collection c (0-based) of
\* the zone at index i (0-based), lines 189-191
SetupCall(i, c) ==
  [db |-> ZONES[i + 1].database_prefix, coll |-> TENANT_COLLECTIONS[c + 1],
   zone |-> ZONES[i + 1].name]

\* lines 176-194: the loop goes on with the next zone or the method ends
NextZone ==
  /\ idx' = idx + 1 /\ cidx' = 0 /\ call' = NoCall
  /\ pc' = IF idx + 1 < NZones THEN "enableSharding" ELSE "return"
  /\ ret' = IF idx + 1 < NZones THEN ret ELSE "True"

\* shard_collection returns r: to the user, or to the loop of lines 189-191,
\* which ignores r and goes on with the next collection or zone
Returned(r) ==
  IF op = "shard_collection"
  THEN pc' = "return" /\ ret' = r /\ UNCHANGED << idx, cidx, call >>
  ELSE IF cidx + 1 < Len(TENANT_COLLECTIONS)
  THEN /\ pc' = "shardCollection" /\ cidx' = cidx + 1
       /\ call' = SetupCall(idx, cidx + 1)
       /\ UNCHANGED << idx, ret >>
  ELSE NextZone

\* lines 36-43 with the failure of listShards not caught
ShardListDespiteFailure(a) == shards

\* lines 36-43: what get_shard_list returns on answer a, [] on a failure
ShardList(a) == IF a = "ok" THEN shards ELSE << >>

\* lines 155-157: "if not shards"
NoShards(got) == got = << >>

\* line 158 with the check of the number of shards left out
TwoShardsNotRequired(got) == FALSE

\* lines 158-160: "if len(shards) < 2"
TooFewShards(got) == Len(got) < 2

\* lines 153-161: get_shard_list and the two checks of the inventory
ListShards ==
  /\ pc = "listShards"
  /\ \E a \in ListShardsAnswers :
       LET got == ShardList(a)
       IN /\ replies' = replies \cup Reply(a, "listShards", "admin")
          /\ issued' = Issue("listShards", "admin", "none")
          /\ IF NoShards(got) \/ TooFewShards(got)
             THEN pc' = "return" /\ ret' = "False"
             ELSE pc' = "addShardToZone" /\ ret' = ret
  /\ UNCHANGED << data, written, zones, cluster, op, idx, cidx, kidx, call, actual_shard,
                  zone_shards, status, hist >>

\* lines 164-174: create_zones returned True; zone_shards is computed
SetupPlan ==
  /\ op = "setup_atlas_zone_sharding"
  /\ pc = "addShardToZone"
  /\ idx = NZones
  /\ zone_shards' = [i \in 1..NZones |-> ZoneShard(shards, i - 1)]
  /\ pc' = "enableSharding" /\ idx' = 0
  /\ UNCHANGED << data, written, zones, cluster, op, cidx, kidx, call, actual_shard, status, ret,
                  replies, issued, hist >>

\* lines 177-182: enable_sharding_for_database for the current zone
EnableSharding ==
  /\ pc = "enableSharding"
  /\ LET db == IF op = "enable_sharding_for_database" THEN call.db
               ELSE ZONES[idx + 1].database_prefix
     IN \E a \in EnableShardingAnswers(db) :
          /\ enabled' = IF a = "ok" THEN enabled \cup {db} ELSE enabled
          /\ replies' = replies \cup Reply(a, "enableSharding", db)
          /\ issued' = Issue("enableSharding", db, "none")
          /\ IF op = "enable_sharding_for_database"
             THEN /\ pc' = "return" /\ ret' = EnableResult(a)
                  /\ UNCHANGED << idx, cidx, call >>
             ELSE IF EnableResult(a) = "True"
             THEN pc' = "movePrimary" /\ UNCHANGED << idx, cidx, call, ret >>
             ELSE NextZone
  /\ UNCHANGED << data, written, zones, server, shards, tags, primary, sharded, ranges, op, kidx,
                  actual_shard, zone_shards, status, hist >>

\* lines 178 and 184-186: move_database_primary for the current zone
MovePrimary ==
  /\ pc = "movePrimary"
  /\ LET db == ZONES[idx + 1].database_prefix
         shard == zone_shards[idx + 1]
     IN \E a \in MovePrimaryAnswers(db, shard) :
          /\ primary' = IF a = "ok" THEN [primary EXCEPT ![db] = shard] ELSE primary
          /\ replies' = replies \cup Reply(a, "movePrimary", db)
          /\ issued' = Issue("movePrimary", db, shard)
          /\ IF MoveResult(a) = "True"
             THEN /\ pc' = "shardCollection" /\ cidx' = 0
                  /\ call' = SetupCall(idx, 0)
                  /\ UNCHANGED << idx, ret >>
             ELSE NextZone
  /\ UNCHANGED << data, written, zones, server, shards, tags, enabled, sharded, ranges, op, kidx,
                  actual_shard, zone_shards, status, hist >>

\* lines 104-114 entered from the "already sharded" branch instead
InstallsRangesWhenAlready(a) ==
  a = "already" /\ call.zone # "None" /\ Countries(call.zone) # << >>

\* lines 104-114 entered whatever the answer to shardCollection
InstallsRangesAlways(a) == call.zone # "None" /\ Countries(call.zone) # << >>

\* lines 104-114: after answer a the ranges of the zone are installed, that
\* is after a successful shardCollection, for a zone of the configuration
InstallsRanges(a) ==
  a = "ok" /\ call.zone # "None" /\ Countries(call.zone) # << >>

\* lines 99-112 and 128-134: shardCollection and what follows its answer
ShardCollection ==
  /\ pc = "shardCollection"
  /\ \E a \in ShardCollectionAnswers(<<call.db, call.coll>>) :
       /\ sharded' = IF a = "ok" THEN sharded \cup {<<call.db, call.coll>>}
                     ELSE sharded
       /\ replies' = replies \cup Reply(a, "shardCollection", <<call.db, call.coll>>)
       /\ issued' = Issue("shardCollection", <<call.db, call.coll>>, "none")
       /\ IF InstallsRanges(a)
          THEN pc' = "updateZoneKeyRange" /\ UNCHANGED << idx, cidx, call, ret >>
          ELSE Returned(IF a \in Failures THEN "False" ELSE "True")
  /\ kidx' = 0
  /\ UNCHANGED << data, written, zones, server, shards, tags, enabled, primary, ranges, op, actual_shard,
                  zone_shards, status, hist >>

\* lines 114-126: the loop over the countries goes on after answer a; a
\* failure is caught outside the loop and ends it
NextCountry(a) == a = "ok" /\ kidx + 1 < Len(Countries(call.zone))

\* lines 114-128: one updateZoneKeyRange of the loop over the countries
UpdateZoneKeyRange ==
  /\ pc = "updateZoneKeyRange"
  /\ LET country == Countries(call.zone)[kidx + 1]
         d == RangeDoc(call.db, call.coll, country, call.zone)
     IN \E a \in UpdateZoneKeyRangeAnswers(d) :
          /\ ranges' = IF a = "ok" THEN ranges \cup {d} ELSE ranges
          /\ replies' = replies \cup
                          Reply(a, "updateZoneKeyRange", <<call.db, call.coll, country>>)
          /\ issued' = Issue("updateZoneKeyRange", <<call.db, call.coll, country>>,
                              call.zone)
          /\ IF NextCountry(a)
             THEN /\ kidx' = kidx + 1
                  /\ UNCHANGED << pc, idx, cidx, call, ret >>
             ELSE kidx' = 0 /\ Returned("True")
  /\ UNCHANGED << data, written, zones, server, shards, tags, enabled, primary, sharded, op, actual_shard,
                  zone_shards, status, hist >>

\* setup_atlas_zone_sharding (lines 157, 161, 194) or a shard_collection
\* called by the user (lines 128, 132, 134) returns
Return ==
  /\ pc = "return"
  /\ Finish(ret)
  /\ UNCHANGED << data, written, zones, cluster, idx, cidx, kidx, call, actual_shard, zone_shards,
                  status, replies, issued >>

\* ----------------------------------------------- setup on a cluster
\* The states of the setup procedure for the inventory: what a complete
\* earlier run left up to each step.
Stages ==
  {"NotConfigured", "ZonesCreated", "DatabasesPlaced", "CollectionsSharded",
   "RangesInstalled"}

Rank(stage) ==
  CASE stage = "NotConfigured" -> 0
    [] stage = "ZonesCreated" -> 1
    [] stage = "DatabasesPlaced" -> 2
    [] stage = "CollectionsSharded" -> 3
    [] stage = "RangesInstalled" -> 4

AllNamespaces ==
  {<<ZONES[i].database_prefix, TENANT_COLLECTIONS[c]>> :
     i \in 1..NZones, c \in 1..Len(TENANT_COLLECTIONS)}

AllRanges ==
  UNION {{RangeDoc(ZONES[i].database_prefix, TENANT_COLLECTIONS[c],
                   ZONES[i].countries[k], ZONES[i].name) :
            c \in 1..Len(TENANT_COLLECTIONS), k \in 1..Len(ZONES[i].countries)} :
         i \in 1..NZones}

InStage(stage) ==
  /\ tags = IF Rank(stage) >= 1 THEN TagsOfPlan(shards) ELSE {}
  /\ enabled = IF Rank(stage) >= 2 THEN Databases ELSE {}
  /\ primary = [d \in Databases |->
                  IF Rank(stage) >= 2
                  THEN ActualShard(shards, (CHOOSE i \in 1..NZones :
                                              ZONES[i].database_prefix = d) - 1)
                  ELSE "none"]
  /\ sharded = IF Rank(stage) >= 3 THEN AllNamespaces ELSE {}
  /\ ranges = IF Rank(stage) >= 4 THEN AllRanges ELSE {}

InitProgram ==
  /\ op = "idle" /\ pc = "idle" /\ idx = 0 /\ cidx = 0 /\ kidx = 0
  /\ call = NoCall /\ actual_shard = << >> /\ zone_shards = << >>
  /\ status = << >> /\ ret = "none" /\ replies = {} /\ issued = << >>
  /\ hist = << InitRecord >>

\* the data shards in the order of their names
DataShardIds == <<"shard00", "shard01", "shard02">>

\* Setup uses no shard name of the configuration and treats all data shards
\* alike, so of the inventories that differ only in the names of the data
\* shards one is kept: every length and every position of the config shard,
\* the data shards named in order.
SetupInventories ==
  {s \in ShardLists : ShardNames(s) = SubSeq(DataShardIds, 1, Len(ShardNames(s)))}

InitSetup ==
  /\ zones = ZONES /\ EmptyDatabases
  /\ shards \in SetupInventories /\ server \in Builds
  /\ \E stage \in Stages :
       /\ ShardNames(shards) = << >> => stage = "NotConfigured"
       /\ InStage(stage)
  /\ InitProgram

\* the user runs the setup once
CallSetup ==
  /\ Len(hist) = 1
  /\ Begin("setup_atlas_zone_sharding", "listShards")
  /\ UNCHANGED << data, written, zones, cluster, call >>

NextSetup ==
  \/ CallSetup \/ ListShards \/ AddShardToZone \/ SetupPlan
  \/ EnableSharding \/ MovePrimary \/ ShardCollection \/ UpdateZoneKeyRange
  \/ Return

SpecSetup == InitSetup /\ [][NextSetup]_vars

\* ------------------------------------- shard_collection called on its own
\* the inventory the configuration assumes
ConfiguredShards == [i \in 1..NZones |-> ZONES[i].shards[1]]

\* the arguments of a call: a database and a tenant collection of the
\* configuration, and a zone of the configuration or none
CallArgs ==
  [db : Databases, coll : Range(TENANT_COLLECTIONS), zone : ZoneNames \cup {"None"}]

InitRanges ==
  /\ zones = ZONES /\ EmptyDatabases
  /\ shards = ConfiguredShards /\ server \in Builds
  /\ \E stage \in {"DatabasesPlaced", "CollectionsSharded", "RangesInstalled"} :
       InStage(stage)
  /\ InitProgram

\* the user calls shard_collection, and again with the same arguments
CallShardCollection ==
  /\ Len(hist) <= MaxCalls
  /\ Begin("shard_collection", "shardCollection")
  /\ call' \in CallArgs
  /\ Len(hist) > 1 => call' = Last.call
  /\ UNCHANGED << data, written, zones, cluster >>

NextRanges ==
  CallShardCollection \/ ShardCollection \/ UpdateZoneKeyRange \/ Return

SpecRanges == InitRanges /\ [][NextRanges]_vars

\* ---------------------------- reconcile, setup and teardown in any order
\* a cluster with no zone database yet, with as many shards as zones or
\* fewer, possibly with associations of an earlier reconcile and one of a
\* zone the configuration does not know
InitReconcile ==
  /\ zones = ZONES /\ EmptyDatabases
  /\ shards \in {s \in SetupInventories : Len(s) <= NZones}
  /\ server = "idempotent"
  /\ tags \in InitialTags
  /\ enabled = {} /\ sharded = {} /\ ranges = {}
  /\ primary = [d \in Databases |-> "none"]
  /\ InitProgram

\* the setup as the first run or not at all, then create_zones and
\* cleanup_zones in any order
NextReconcile ==
  \/ CallSetup
  \/ (Len(hist) <= MaxCalls /\ CallCreateZones)
  \/ (Len(hist) <= MaxCalls /\ CallCleanupZones)
  \/ AddShardToZone \/ CreateZonesRaise \/ CreateZonesReturn
  \/ RemoveShardFromZone \/ RemoveZone \/ CleanupReturn
  \/ ListShards \/ SetupPlan \/ EnableSharding \/ MovePrimary
  \/ ShardCollection \/ UpdateZoneKeyRange \/ Return

SpecReconcile == InitReconcile /\ [][NextReconcile]_vars

\* ---------------------------- the database and collection steps called
\* ---------------------------- on their own
\* the user calls enable_sharding_for_database on a zone database
CallEnableSharding ==
  /\ Len(hist) <= MaxCalls
  /\ Begin("enable_sharding_for_database", "enableSharding")
  /\ \E db \in Databases : call' = [db |-> db, coll |-> "none", zone |-> "None"]
  /\ UNCHANGED << data, written, zones, cluster >>

InitSteps ==
  /\ zones = ZONES /\ EmptyDatabases
  /\ shards = ConfiguredShards /\ server \in Builds
  /\ \E stage \in Stages : InStage(stage)
  /\ InitProgram

NextSteps ==
  \/ CallEnableSharding \/ CallShardCollection
  \/ EnableSharding \/ ShardCollection \/ UpdateZoneKeyRange \/ Return

SpecSteps == InitSteps /\ [][NextSteps]_vars

\* ------------------------------- create_zones under any configuration
\* the configurations: config.ZONES cut after any number of zones, none
\* included
Configurations == {SubSeq(ZONES, 1, n) : n \in 0..Len(ZONES)}

InitConfig ==
  /\ zones \in Configurations /\ EmptyDatabases
  /\ shards \in ShardLists /\ server = "idempotent"
  /\ tags \in InitialTags
  /\ enabled = {} /\ sharded = {} /\ ranges = {}
  /\ primary = [d \in Databases |-> "none"]
  /\ InitProgram

NextConfig ==
  CallCreateZones \/ AddShardToZone \/ CreateZonesRaise \/ CreateZonesReturn

SpecConfig == InitConfig /\ [][NextConfig]_vars

\* --------------------------------------------- populate_sample_data_only
\* insert_many: every document is written, or the command fails
InsertManyAnswers == {"ok"} \cup Injected

\* the number of the run under way
RunNo == Len(hist)

\* lines 145-147: the documents generated for a common collection in a run
GenerateCommon(coll, run) ==
  [k \in 1..BatchSize |-> [key |-> <<coll, run, k>>]]

\* models.py generate_order, generate_transaction and generate_log with
\* the country and the region exchanged
GenerateTenantSwapped(country, region, key) ==
  [key |-> key, country |-> region, region |-> country]

\* models.py generate_order, generate_transaction and generate_log: the
\* fields of the document the shard key is made of
GenerateTenant(country, region, key) ==
  [key |-> key, country |-> country, region |-> region]

\* line 187: the documents generated per country
PerCountry(countries) == DemoDataSize \div Len(countries)

\* lines 182-205: the documents generated for collection coll of the zone
\* at index i (from 1), country after country
TenantDocs(i, coll, run) ==
  LET countries == ZONES[i].countries
      per == PerCountry(countries)
  IN [m \in 1..(Len(countries) * per) |->
        GenerateTenant(countries[((m - 1) \div per) + 1], ZONES[i].name,
                       <<coll, run, m>>)]

\* the collection ns after the first n of docs were written
Written(ns, docs, n) == [data EXCEPT ![ns] = @ \cup {docs[k] : k \in 1..n}]

\* the documents insert_many writes on answer a: all of them, or on a
\* failure those before the one that failed
WrittenOn(a, docs) == IF a = "ok" THEN {Len(docs)} ELSE 0..(Len(docs) - 1)

\* the next collection of the zone, the next zone, or the end of the loop
\* over the zones, where the method goes to after
NextInsert(after) ==
  IF cidx + 1 < Len(COMMON_COLLECTIONS)
  THEN cidx' = cidx + 1 /\ UNCHANGED << idx, pc, ret >>
  ELSE IF idx + 1 < Len(ZONES)
  THEN cidx' = 0 /\ idx' = idx + 1 /\ UNCHANGED << pc, ret >>
  ELSE cidx' = 0 /\ idx' = 0 /\ pc' = after /\ ret' = "None"

\* lines 222-223: the exception is caught and the method returns
InsertRaised == pc' = "return" /\ ret' = "None" /\ UNCHANGED << idx, cidx >>

\* lines 150-169: one insert_many of the common data into a zone database
InsertCommon ==
  /\ pc = "insertCommon"
  /\ LET ns == <<ZONES[idx + 1].database_prefix, COMMON_COLLECTIONS[cidx + 1]>>
         docs == GenerateCommon(COMMON_COLLECTIONS[cidx + 1], RunNo)
     IN \E a \in InsertManyAnswers : \E n \in WrittenOn(a, docs) :
          /\ data' = Written(ns, docs, n)
          /\ replies' = replies \cup Reply(a, "insert_many", ns)
          /\ issued' = Issue("insert_many", ns, "none")
          /\ IF a = "ok" THEN NextInsert("insertTenant") ELSE InsertRaised
  /\ UNCHANGED << written, zones, cluster, op, kidx, call, actual_shard,
                  zone_shards, status, hist >>

\* lines 174-218: one insert_many of the tenant data of a zone, left out
\* for an empty list
InsertTenant ==
  /\ pc = "insertTenant"
  /\ LET ns == <<ZONES[idx + 1].database_prefix, TENANT_COLLECTIONS[cidx + 1]>>
         docs == TenantDocs(idx + 1, TENANT_COLLECTIONS[cidx + 1], RunNo)
     IN IF docs = << >>
        THEN /\ NextInsert("return")
             /\ UNCHANGED << data, written, replies, issued >>
        ELSE \E a \in InsertManyAnswers : \E n \in WrittenOn(a, docs) :
               /\ data' = Written(ns, docs, n)
               /\ written' = [written EXCEPT ![ns] = @ + n]
               /\ replies' = replies \cup Reply(a, "insert_many", ns)
               /\ issued' = Issue("insert_many", ns, "none")
               /\ IF a = "ok" THEN NextInsert("return") ELSE InsertRaised
  /\ UNCHANGED << zones, cluster, op, kidx, call, actual_shard, zone_shards,
                  status, hist >>

\* the user chooses "Populate Sample Data Only"
CallPopulate ==
  /\ Len(hist) <= MaxRuns
  /\ Begin("populate_sample_data_only", "insertCommon")
  /\ UNCHANGED << data, written, zones, cluster, call >>

InitData ==
  /\ zones = ZONES /\ EmptyDatabases
  /\ shards = ConfiguredShards /\ server = "idempotent"
  /\ InStage("NotConfigured")
  /\ InitProgram

NextData == CallPopulate \/ InsertCommon \/ InsertTenant \/ Return

SpecData == InitData /\ [][NextData]_vars

\* ------------------------------------------------------ claims C3 to C6
\* the failed commands of a run that add or remove an association
AssocFaults(f) ==
  {c \in f : c[1] \in {"addShardToZone", "removeShardFromZone"}}

\* the shard the plan gives zone i (from 1): positional, last on overflow
PlannedShard(i) ==
  NthDataShard(shards, IF i <= NData(shards) THEN i ELSE NData(shards))

PlannedTags == {<<PlannedShard(i), ZONES[i].name>> : i \in 1..NZones}

\* the last two finished runs are both create_zones and no command of
\* either was answered with a real error
TwoReconciles ==
  /\ op = "idle" /\ Len(hist) >= 3
  /\ Last.op = "create_zones" /\ Prev.op = "create_zones"
  /\ Last.failed = {} /\ Prev.failed = {}

\* C3: a second create_zones on the state the first one left reports no
\* zone as failed (an "already exists" answer is a warning, not an error)
\* and leaves the shard-zone associations as they were.
C3_Idempotent ==
  TwoReconciles => ("ERROR" \notin Range(status) /\ Last.tags = Prev.tags)

C3_Witness ==
  TwoReconciles /\ Last.ret = "True" /\ "WARNING" \in Range(status)

\* a create_zones run has just returned True and none of its commands was
\* answered with a real error
Reconciled ==
  /\ op = "idle" /\ Len(hist) >= 2
  /\ Last.op = "create_zones" /\ Last.ret = "True"
  /\ Last.failed = {}

\* C4 as stated: after such a run, from any prior cluster state, every zone
\* of the plan is associated with its planned shard and with no other.
C4_AsStated ==
  Reconciled =>
    \A i \in 1..NZones : ZoneShardsOf(ZONES[i].name) = {PlannedShard(i)}

\* C4 amended: after such a run every zone of the plan is associated with
\* its planned shard, and the associations are those that existed before
\* the run plus the planned ones: nothing is removed.
C4_AddsPlanned ==
  Reconciled => tags = Prev.tags \cup PlannedTags

C4_Witness ==
  /\ Reconciled
  /\ \E t \in Prev.tags : t[2] = ZONES[1].name /\ t[1] # PlannedShard(1)
  /\ <<PlannedShard(1), ZONES[1].name>> \notin Prev.tags

\* C5: after create_zones and then cleanup_zones, with no association
\* command answered with a real error, none of the associations that
\* create_zones made for the zones of the plan is left.
C5_AsStated ==
  ( /\ op = "idle" /\ Len(hist) >= 3
    /\ Last.op = "cleanup_zones" /\ AssocFaults(Last.failed) = {}
    /\ Prev.op = "create_zones" /\ Prev.ret = "True"
    /\ Prev.failed = {} )
  => \A i \in 1..NZones : <<Prev.plan[i], ZONES[i].name>> \notin tags

\* C6: the associations after create_zones; cleanup_zones; create_zones
\* equal the associations after the first create_zones alone.
C6_AsStated ==
  ( /\ op = "idle" /\ Len(hist) >= 4
    /\ Last.op = "create_zones" /\ Last.ret = "True"
  /\ Last.failed = {}
    /\ Prev.op = "cleanup_zones" /\ AssocFaults(Prev.failed) = {}
    /\ hist[Len(hist) - 2].op = "create_zones"
    /\ hist[Len(hist) - 2].ret = "True"
    /\ hist[Len(hist) - 2].failed = {} )
  => Last.tags = hist[Len(hist) - 2].tags

\* ------------------------------------------------------ claims C7 to C10
\* the database of the zone at index i (from 1)
DbOf(i) == ZONES[i].database_prefix

\* the state RangesInstalled for the inventory: every zone associated with
\* its planned shard, every zone database enabled and placed on it, every
\* tenant collection sharded and every range of every country installed
RangesInstalled ==
  \A i \in 1..NZones :
    /\ <<PlannedShard(i), ZONES[i].name>> \in tags
    /\ DbOf(i) \in enabled
    /\ primary[DbOf(i)] = PlannedShard(i)
    /\ \A c \in 1..Len(TENANT_COLLECTIONS) :
         /\ <<DbOf(i), TENANT_COLLECTIONS[c]>> \in sharded
         /\ \A k \in 1..Len(ZONES[i].countries) :
              \E r \in ranges :
                /\ r.ns = <<DbOf(i), TENANT_COLLECTIONS[c]>>
                /\ r.min[1] = ZONES[i].countries[k]
                /\ r.zone = ZONES[i].name

\* a setup run has just returned True
SetupDone ==
  /\ op = "idle" /\ Len(hist) = 2
  /\ Last.op = "setup_atlas_zone_sharding" /\ Last.ret = "True"

\* C7: entered in any state of the procedure, a setup run in which the
\* cluster answers every command with "applied" or "already done" ends in
\* RangesInstalled.
C7_AsStated == (SetupDone /\ Last.failed = {}) => RangesInstalled

\* a shard_collection call for a zone has just returned, its shardCollection
\* was applied and only updateZoneKeyRange commands got another answer
RangesAttempted ==
  /\ op = "idle" /\ Len(hist) >= 2
  /\ Last.op = "shard_collection" /\ Last.call.zone # "None"
  /\ \A c \in replies : c[1] = "updateZoneKeyRange"

\* C8: the failure of updateZoneKeyRange for one country does not keep the
\* ranges of the other countries of the zone from being installed.
C8_AsStated ==
  RangesAttempted =>
    \A k \in 1..Len(Countries(Last.call.zone)) :
      LET country == Countries(Last.call.zone)[k]
      IN (\A c \in replies : c[2] # <<Last.call.db, Last.call.coll, country>>)
         => \E r \in ranges :
              /\ r.ns = <<Last.call.db, Last.call.coll>>
              /\ r.min[1] = country
              /\ r.zone = Last.call.zone

\* the ranges of collection coll of the database of zone i for country t
RangesFor(i, coll, t) ==
  {r \in ranges : r.ns = <<DbOf(i), coll>> /\ r.min[1] = t}

\* every zone, tenant collection of its database and country of the zone
\* has exactly one range, from (country, "") to (country, MaxKey) and bound
\* to the zone; no range is for a country of another zone or for a common
\* collection
OneRangePerTenant ==
  /\ \A i \in 1..NZones : \A c \in 1..Len(TENANT_COLLECTIONS) :
       \A k \in 1..Len(ZONES[i].countries) :
         RangesFor(i, TENANT_COLLECTIONS[c], ZONES[i].countries[k]) =
           {[ns |-> <<DbOf(i), TENANT_COLLECTIONS[c]>>,
             min |-> <<ZONES[i].countries[k], "">>,
             max |-> <<ZONES[i].countries[k], "MaxKey">>,
             zone |-> ZONES[i].name]}
  /\ \A r \in ranges : \E i \in 1..NZones :
       /\ r.ns[1] = DbOf(i)
       /\ r.ns[2] \in Range(TENANT_COLLECTIONS)
       /\ r.ns[2] \notin Range(COMMON_COLLECTIONS)
       /\ r.min[1] \in Range(ZONES[i].countries)

\* a setup run has just returned and every command of it succeeded
SetupSucceeded ==
  /\ op = "idle" /\ Len(hist) = 2
  /\ Last.op = "setup_atlas_zone_sharding" /\ replies = {}

\* C9 as stated: after a setup run on a cluster where every command
\* succeeds there is exactly one range per zone, tenant collection and
\* country, and no other range.
C9_AsStated == SetupSucceeded => OneRangePerTenant

\* C9: after a setup run on a cluster of at least two shards where every
\* command succeeds there is exactly one range per zone, tenant collection
\* and country of the zone, from (country, "") to (country, MaxKey) and bound
\* to the zone, and no range for another zone's country or a common
\* collection.
C9_OneRangePerTenant ==
  (SetupSucceeded /\ Len(shards) >= 2) => OneRangePerTenant

C9_Witness ==
  /\ SetupSucceeded /\ Len(shards) >= 2
  /\ hist[1].ranges = {} /\ ranges # {}

\* the last two finished runs are shard_collection calls with the same
\* arguments, for a zone, and no command of either failed
TwoInstalls ==
  /\ op = "idle" /\ Len(hist) >= 3
  /\ Last.op = "shard_collection" /\ Prev.op = "shard_collection"
  /\ Last.call = Prev.call /\ Last.call.zone # "None"
  /\ Last.failed = {} /\ Prev.failed = {}

\* C10: installing the ranges of a zone for a collection a second time
\* leaves the ranges the first installation left, with no two ranges of a
\* namespace for the same country.
C10_Stable ==
  TwoInstalls =>
    /\ Last.ranges = Prev.ranges
    /\ \A r1, r2 \in ranges :
         (r1.ns = r2.ns /\ r1.min[1] = r2.min[1]) => r1 = r2

C10_Witness ==
  /\ TwoInstalls /\ server = "idempotent"
  /\ Prev.ranges # hist[Len(hist) - 2].ranges

\* ----------------------------------------------------- claims C11 to C20
\* the addShardToZone of the zone at index i (from 1) failed in this run
AddFailed(i) ==
  \E c \in replies :
    c[1] = "addShardToZone" /\ c[2] = ZONES[i].name /\ c[3] \in Failures

\* a create_zones run in which an addShardToZone failed has just returned
ReconcileFailedSomewhere ==
  /\ op = "idle" /\ Len(hist) >= 2 /\ Last.op = "create_zones"
  /\ \E i \in 1..NZones : AddFailed(i)

\* C11: in create_zones a failure of addShardToZone that is not "already
\* exists" is recorded as an error for that zone only and does not end the
\* loop: the command is issued for every zone of the plan.
C11_BestEffort ==
  ReconcileFailedSomewhere =>
    /\ Len(status) = NZones /\ Len(actual_shard) = NZones
    /\ \A i \in 1..NZones : status[i] = "ERROR" <=> AddFailed(i)

C11_Witness ==
  /\ ReconcileFailedSomewhere /\ AddFailed(1)
  /\ status[NZones] = "SUCCESS" /\ <<actual_shard[NZones], ZONES[NZones].name>> \in tags
  /\ <<actual_shard[NZones], ZONES[NZones].name>> \notin Prev.tags

\* the database the issued command e works on, "none" for the others
DbOfIssued(e) ==
  IF e[1] \in {"enableSharding", "movePrimary"} THEN e[2]
  ELSE IF e[1] \in {"shardCollection", "updateZoneKeyRange"} THEN e[2][1]
  ELSE "none"

\* the positions of the commands among cmds issued on database db
IssuedFor(cmds, db) ==
  {n \in 1..Len(issued) : issued[n][1] \in cmds /\ DbOfIssued(issued[n]) = db}

\* command cmd on database db failed in this run
DbStepFailed(cmd, db) ==
  \E c \in replies : c[1] = cmd /\ c[2] = db /\ c[3] \in Failures

\* command cmd on database db was answered with "ok" in this run
DbStepApplied(cmd, db) ==
  /\ \E n \in 1..Len(issued) : issued[n][1] = cmd /\ issued[n][2] = db
  /\ \A c \in replies : ~(c[1] = cmd /\ c[2] = db)

\* enableSharding or movePrimary failed for the database of zone i
PlacementFailed(i) ==
  DbStepFailed("enableSharding", DbOf(i)) \/ DbStepFailed("movePrimary", DbOf(i))

\* a setup run is under way or has just returned
InSetup ==
  \/ op = "setup_atlas_zone_sharding"
  \/ op = "idle" /\ Len(hist) = 2 /\ Last.op = "setup_atlas_zone_sharding"

\* the steps of zone j were attempted as far as its own answers allow
Attempted(j) ==
  /\ IssuedFor({"enableSharding"}, DbOf(j)) # {}
  /\ ~DbStepFailed("enableSharding", DbOf(j))
       => IssuedFor({"movePrimary"}, DbOf(j)) # {}
  /\ DbStepApplied("movePrimary", DbOf(j))
       => \A c \in 1..Len(TENANT_COLLECTIONS) :
            \E n \in 1..Len(issued) :
              /\ issued[n][1] = "shardCollection"
              /\ issued[n][2] = <<DbOf(j), TENANT_COLLECTIONS[c]>>

\* C12: when enableSharding or movePrimary fails for the database of a zone,
\* the run issues no shardCollection and no updateZoneKeyRange for that
\* database, and it still attempts the steps of every later zone.
C12_BlockingForZone ==
  InSetup =>
    \A i \in 1..NZones :
      PlacementFailed(i) =>
        /\ IssuedFor({"shardCollection", "updateZoneKeyRange"}, DbOf(i)) = {}
        /\ op = "idle" => \A j \in (i + 1)..NZones : Attempted(j)

C12_Witness ==
  /\ InSetup /\ op = "idle" /\ PlacementFailed(1)
  /\ DbStepApplied("movePrimary", DbOf(NZones))
  /\ IssuedFor({"updateZoneKeyRange"}, DbOf(NZones)) # {}

\* both zones are associated with shard sh and both zone databases are
\* enabled and have their primary on sh
BothPlacedOn(sh) ==
  /\ zone_shards = [i \in 1..NZones |-> sh]
  /\ \A i \in 1..NZones :
       /\ <<sh, ZONES[i].name>> \in tags
       /\ DbOf(i) \in enabled
       /\ primary[DbOf(i)] = sh

\* C13 as stated: a setup run against a cluster whose inventory is a single
\* shard maps both zones to that shard and places both zone databases on it.
C13_AsStated ==
  (SetupSucceeded /\ Len(shards) = 1 /\ NData(shards) = 1) => BothPlacedOn(shards[1])

\* C13: a setup run in which every command succeeds, against a cluster whose
\* inventory has two entries of which one is a data shard, maps both zones
\* to that data shard and places both zone databases on it.
C13_Overflow ==
  (SetupSucceeded /\ Len(shards) >= 2 /\ NData(shards) = 1)
    => BothPlacedOn(NthDataShard(shards, 1))

C13_Witness ==
  /\ SetupSucceeded /\ Len(shards) >= 2 /\ NData(shards) = 1
  /\ hist[1].tags = {} /\ hist[1].enabled = {}
  /\ BothPlacedOn(NthDataShard(shards, 1))

\* the commands of the run that change the cluster
StateChanging ==
  {"addShardToZone", "removeShardFromZone", "removeZone", "enableSharding",
   "movePrimary", "shardCollection", "updateZoneKeyRange"}

\* the cluster is as it was before the run
ClusterUntouched ==
  /\ tags = hist[1].tags /\ enabled = hist[1].enabled
  /\ primary = hist[1].primary /\ sharded = hist[1].sharded
  /\ ranges = hist[1].ranges

\* the run issued no state-changing command, left the cluster as it was
\* and, once returned, has returned False
Refused ==
  /\ \A n \in 1..Len(issued) : issued[n][1] \notin StateChanging
  /\ ClusterUntouched
  /\ op = "idle" => ret = "False"

\* C14: when the cluster reports fewer than two shards,
\* setup_atlas_zone_sharding returns False and issues no addShardToZone,
\* enableSharding, movePrimary, shardCollection or updateZoneKeyRange.
C14_TwoShardsRequired == (InSetup /\ Len(shards) < 2) => Refused

C14_Witness ==
  /\ InSetup /\ op = "idle" /\ Len(shards) = 1 /\ replies = {}
  /\ issued = << <<"listShards", "admin", "none">> >> /\ ret = "False"

\* the listShards of the run failed
ListShardsFailed ==
  \E c \in replies : c[1] = "listShards" /\ c[3] \in Failures

\* C15: when listShards fails or returns no shard, setup_atlas_zone_sharding
\* returns False and the cluster is unchanged, no state-changing command
\* being issued.
C15_InventoryUnavailable ==
  (InSetup /\ (ListShardsFailed \/ (issued # << >> /\ shards = << >>))) => Refused

C15_Witness ==
  /\ InSetup /\ op = "idle" /\ ListShardsFailed /\ Len(shards) >= 2
  /\ ret = "False" /\ Len(issued) = 1

\* C16: create_zones with no zone in the configuration, or with an empty
\* shard list, returns False and issues no addShardToZone.
C16_AsStated ==
  (/\ op = "idle" /\ Len(hist) >= 2 /\ Last.op = "create_zones"
   /\ (zones = << >> \/ shards = << >>))
    => (ret = "False" /\ issued = << >>)

\* run_demo.py line 265: count_documents({"country": {"$in": tenant_ids}})
CountInZone(db, coll, tenant_ids) ==
  Cardinality({d \in data[<<db, coll>>] : d.country \in tenant_ids})

\* C17: at every moment of any sequence of population runs, in every tenant
\* collection of a zone's database the documents of the zone's own countries
\* are as many as were inserted for them, and there is no document of a
\* country of another zone.
C17_TenantIsolation ==
  \A i \in 1..Len(ZONES) : \A c \in 1..Len(TENANT_COLLECTIONS) :
    LET db == ZONES[i].database_prefix
        coll == TENANT_COLLECTIONS[c]
    IN /\ CountInZone(db, coll, Range(ZONES[i].countries)) = written[<<db, coll>>]
       /\ \A j \in 1..Len(ZONES) \ {i} :
            CountInZone(db, coll, Range(ZONES[j].countries)) = 0

C17_Witness ==
  /\ op = "idle" /\ Len(hist) = 3 /\ replies = {}
  /\ \A i \in 1..Len(ZONES) :
       written[<<ZONES[i].database_prefix, TENANT_COLLECTIONS[1]>>] =
         2 * Len(ZONES[i].countries) * PerCountry(ZONES[i].countries)
  /\ written[<<ZONES[1].database_prefix, TENANT_COLLECTIONS[1]>>] > 0

\* C18: after every population run, complete or cut short by a failed
\* insert, every common collection holds the same records in every zone
\* database.
C18_AsStated ==
  (op = "idle" /\ Len(hist) >= 2 /\ Last.op = "populate_sample_data_only") =>
    \A c \in 1..Len(COMMON_COLLECTIONS) : \A i, j \in 1..Len(ZONES) :
      data[<<ZONES[i].database_prefix, COMMON_COLLECTIONS[c]>>] =
        data[<<ZONES[j].database_prefix, COMMON_COLLECTIONS[c]>>]

\* C19: within a setup run the shard a zone's database primary is moved to
\* is the shard create_zones associated with that zone, both being computed
\* from the same inventory and the same zones.
C19_SameMapping ==
  InSetup =>
    /\ zone_shards # << >> => zone_shards = actual_shard
    /\ \A m \in 1..Len(issued) :
         issued[m][1] = "movePrimary" =>
           \A n \in 1..m :
             issued[n][1] = "addShardToZone" =>
               \A i \in 1..NZones :
                 (issued[n][2] = ZONES[i].name /\ issued[m][2] = DbOf(i))
                   => issued[n][3] = issued[m][3]

C19_Witness ==
  /\ InSetup /\ NData(shards) >= NZones
  /\ \E m \in 1..Len(issued) :
       /\ issued[m][1] = "movePrimary" /\ issued[m][2] = DbOf(NZones)
       /\ issued[m][3] = NthDataShard(shards, NZones)
       /\ issued[m][3] # NthDataShard(shards, 1)

\* the commands on a database or one of its collections
DbSteps == {"enableSharding", "movePrimary", "shardCollection", "updateZoneKeyRange"}

\* the positions of command cmd on target in the log of the run
PositionsOf(cmd, target) ==
  {n \in 1..Len(issued) : issued[n][1] = cmd /\ issued[n][2] = target}

\* the index (from 1) of the zone whose database is db
ZoneOfDb(db) == CHOOSE i \in 1..NZones : DbOf(i) = db

\* the index (from 1) of the tenant collection coll
CollIndex(coll) == CHOOSE c \in 1..Len(TENANT_COLLECTIONS) : TENANT_COLLECTIONS[c] = coll

\* the place of the issued command e in the order of the state machine:
\* the zone of its database first, then the step within the zone, a
\* collection's shardCollection right before its updateZoneKeyRange commands
Place(e) ==
  CASE e[1] = "listShards" -> <<0, 0>>
    [] e[1] = "addShardToZone" -> <<0, 1>>
    [] e[1] = "enableSharding" -> <<ZoneOfDb(e[2]), 1>>
    [] e[1] = "movePrimary" -> <<ZoneOfDb(e[2]), 2>>
    [] e[1] = "shardCollection" -> <<ZoneOfDb(e[2][1]), 2 * CollIndex(e[2][2]) + 1>>
    [] e[1] = "updateZoneKeyRange" -> <<ZoneOfDb(e[2][1]), 2 * CollIndex(e[2][2]) + 2>>

\* place p is not after place q
NotAfter(p, q) == p[1] < q[1] \/ (p[1] = q[1] /\ p[2] <= q[2])

\* command cmd on target was issued before position m
IssuedBefore(m, cmd, target) ==
  \E n \in 1..(m - 1) : issued[n][1] = cmd /\ issued[n][2] = target

\* a setup run has returned: issued is the log of the whole run
SetupReturned ==
  op = "idle" /\ Len(hist) = 2 /\ Last.op = "setup_atlas_zone_sharding"

\* C20: the commands of every setup run, complete or ended early, were
\* issued in the order of the state machine: every addShardToZone before the
\* first database step; zone after zone, enableSharding, then movePrimary,
\* then for each collection its shardCollection and then its
\* updateZoneKeyRange commands; and a step was issued only after the step
\* before it, a collection's updateZoneKeyRange only after its
\* shardCollection succeeded.
C20_FixedOrder ==
  SetupReturned =>
    /\ \A n \in 1..(Len(issued) - 1) : NotAfter(Place(issued[n]), Place(issued[n + 1]))
    /\ \A m \in 1..Len(issued) :
         LET e == issued[m]
         IN /\ e[1] = "enableSharding" =>
                 \A i \in 1..NZones : IssuedBefore(m, "addShardToZone", ZONES[i].name)
            /\ e[1] = "movePrimary" => IssuedBefore(m, "enableSharding", e[2])
            /\ e[1] = "shardCollection" => IssuedBefore(m, "movePrimary", e[2][1])
            /\ e[1] = "updateZoneKeyRange" =>
                 /\ IssuedBefore(m, "shardCollection", <<e[2][1], e[2][2]>>)
                 /\ \A r \in replies :
                      ~(r[1] = "shardCollection" /\ r[2] = <<e[2][1], e[2][2]>>)

C20_Witness ==
  /\ SetupSucceeded /\ hist[1].tags = {}
  /\ \A i \in 1..NZones :
       /\ PositionsOf("addShardToZone", ZONES[i].name) # {}
       /\ IssuedFor({"updateZoneKeyRange"}, DbOf(i)) # {}

\* ----------------------------------------------------- claims C21 to C24
\* a cleanup_zones run has just returned
TeardownReturned ==
  op = "idle" /\ Len(hist) >= 2 /\ Last.op = "cleanup_zones"

\* the positions of the removeShardFromZone of shard and zone in the log
Disassociations(zone, shard) ==
  {n \in 1..Len(issued) :
     issued[n][1] = "removeShardFromZone" /\ issued[n][2] = zone /\ issued[n][3] = shard}

\* the positions of the removeZone commands in the log
Deletions == {n \in 1..Len(issued) : issued[n][1] = "removeZone"}

\* C21: in every cleanup_zones run the removeShardFromZone of every
\* configured pair of zone and shard is issued before the first removeZone,
\* the removeZone of every zone is issued, whatever commands fail, and the
\* method returns True.
C21_OrderedBestEffort ==
  TeardownReturned =>
    /\ ret = "True"
    /\ \A i \in 1..NZones :
         /\ \A k \in 1..Len(ZONES[i].shards) :
              /\ Disassociations(ZONES[i].name, ZONES[i].shards[k]) # {}
              /\ \A n \in Disassociations(ZONES[i].name, ZONES[i].shards[k]) :
                   \A m \in Deletions : n < m
         /\ \E m \in Deletions : issued[m][2] = ZONES[i].name

C21_Witness ==
  /\ TeardownReturned /\ ret = "True"
  /\ \E c \in replies : c[1] = "removeShardFromZone" /\ c[3] = "error"
  /\ \E c \in replies : c[1] = "removeZone" /\ c[2] = ZONES[1].name /\ c[3] = "refused"
  /\ \E m \in Deletions : issued[m][2] = ZONES[NZones].name

\* enable_sharding_for_database or shard_collection has just returned and
\* the cluster had answered its command with "already enabled" or "already
\* sharded"
ReturnedOnAlready ==
  /\ op = "idle" /\ Len(hist) >= 2
  /\ \/ /\ Last.op = "enable_sharding_for_database"
        /\ <<"enableSharding", Last.call.db, "already">> \in replies
     \/ /\ Last.op = "shard_collection"
        /\ <<"shardCollection", <<Last.call.db, Last.call.coll>>, "already">> \in replies

\* enable_sharding_for_database or shard_collection has just returned, no
\* command of the run failed, and its database was enabled, or its
\* collection sharded, before the run
ReturnedOnDone ==
  /\ op = "idle" /\ Len(hist) >= 2 /\ RealFailures(replies) = {}
  /\ \/ /\ Last.op = "enable_sharding_for_database"
        /\ Last.call.db \in Prev.enabled
     \/ /\ Last.op = "shard_collection"
        /\ <<Last.call.db, Last.call.coll>> \in Prev.sharded

\* C22 as stated: enabling sharding on a database that is already enabled
\* and sharding a collection that is already sharded return True and leave
\* the enabled databases, the sharded collections and the ranges as they
\* were.
C22_AsStated ==
  ReturnedOnDone =>
    /\ ret = "True"
    /\ enabled = Prev.enabled /\ sharded = Prev.sharded /\ ranges = Prev.ranges

\* C22: when the cluster answers enableSharding with "already enabled" or
\* shardCollection with "already sharded", the method returns True after
\* that one command and leaves the cluster as it was: associations, enabled
\* databases, primaries, sharded collections and ranges.
C22_AlreadyIsNoOp ==
  ReturnedOnAlready =>
    /\ ret = "True"
    /\ tags = Prev.tags /\ enabled = Prev.enabled /\ primary = Prev.primary
    /\ sharded = Prev.sharded /\ ranges = Prev.ranges
    /\ Len(issued) = 1

C22_Witness ==
  /\ ReturnedOnAlready /\ Last.op = "enable_sharding_for_database"
  /\ ret = "True" /\ server = "strict" /\ Len(hist) = 3
  /\ Prev.op = "shard_collection" /\ Prev.ret = "True" /\ Prev.failed = {}
  /\ <<Prev.call.db, Prev.call.coll>> \in hist[1].sharded
  /\ Prev.sharded = hist[1].sharded /\ Prev.ranges = hist[1].ranges

\* the associations of T with zones the configuration does not name
ForeignTags(T) == {t \in T : t[2] \notin ZoneNames}

\* C23: whatever create_zones, setup_atlas_zone_sharding and cleanup_zones
\* runs have been made or are under way, the associations of the zones
\* that are not in the configuration are those of the initial cluster.
C23_ForeignUntouched == ForeignTags(tags) = ForeignTags(hist[1].tags)

\* a shard of a zone outside the configuration was given a configured zone
\* by a setup that succeeded and lost it again in the teardown that followed
C23_Witness ==
  /\ op = "idle" /\ Len(hist) = 3
  /\ hist[2].op = "setup_atlas_zone_sharding" /\ hist[2].ret = "True"
  /\ Last.op = "cleanup_zones"
  /\ \E t \in ForeignTags(tags) : \E z \in ZoneNames :
       /\ <<t[1], z>> \notin hist[1].tags
       /\ <<t[1], z>> \in hist[2].tags
       /\ <<t[1], z>> \notin tags

\* the shards named by the addShardToZone and movePrimary commands of the
\* run so far
PlacementTargets ==
  {issued[n][3] : n \in {m \in 1..Len(issued) :
                           issued[m][1] \in {"addShardToZone", "movePrimary"}}}

\* C24: no addShardToZone and no movePrimary command of a setup run names
\* the shard "config", and every shard such a command names is in the
\* inventory the cluster returned.
C24_ConfigNeverTarget ==
  /\ "config" \notin PlacementTargets
  /\ PlacementTargets \subseteq Range(shards)

\* a setup on an inventory that lists the config shard first has returned
\* True after associating both zones and moving both databases
C24_Witness ==
  /\ SetupReturned /\ ret = "True" /\ replies = {}
  /\ Len(shards) >= 2 /\ shards[1] = "config"
  /\ \A i \in 1..NZones :
       /\ \E n \in 1..Len(issued) :
            issued[n][1] = "addShardToZone" /\ issued[n][2] = ZONES[i].name
       /\ \E n \in 1..Len(issued) :
            issued[n][1] = "movePrimary" /\ issued[n][2] = ZONES[i].database_prefix

====
